---- MODULE Spec2Model ----
(***************************************************************************)
(* Batch coordinator of the image compressor                               *)
(* (client/src/lib/batch-processor.ts, class BatchProcessor).              *)
(*                                                                         *)
(* JavaScript runs one task at a time.  Every action below is one          *)
(* macrotask (a user call, a timer callback, the settling of one           *)
(* compressImage promise) together with all the microtasks it triggers.    *)
(* A dispatch loop whose await resolves without waiting for a timer        *)
(* continues as a microtask, before any other macrotask can run; a loop    *)
(* that does so in an unchanged state does so for ever, and no timer, no   *)
(* image callback and no user call is served again (hung).                 *)
(* Item ids (file id and Date.now()) are taken to be distinct.             *)
(***************************************************************************)
EXTENDS Integers, Sequences, FiniteSets, TLC

\* ---- bounds of the model ----
MaxItems == 3        \* queue items created in one behaviour
MaxBatch == 2        \* files handed to one addToQueue call
MaxSize == 1         \* originalSize of a file ranges over 1..MaxSize
MaxConc == 2         \* maxConcurrency ranges over 1..MaxConc
MaxRetry == 2        \* retryLimit ranges over 0..MaxRetry
MaxLoops == 2        \* dispatch loops alive at the same time
MaxFairItems == 2    \* queue items created in one behaviour of FairSpec
MaxSortBatch == 3    \* files handed to one addToQueue call of SortSpec
MaxSortSize == 2     \* originalSize ranges over 1..MaxSortSize in SortSpec
MaxSmallDim == 6     \* image sides 1..MaxSmallDim
MaxNear == 2         \* image sides within MaxNear of a multiple of a cap
MaxScale == 2        \* ... of the multiples 1..MaxScale of each cap
MaxRasterSide == 5   \* rasters of 1..MaxRasterSide by 1..MaxRasterSide pixels
MaxMetricSide == 3   \* the metrics compare rasters of 1..MaxMetricSide squared
MaxGraySide == 5     \* solid-gray rasters of 1..MaxGraySide squared
MaxBytes == 2        \* files of 1..MaxBytes bytes, blobs of 0..MaxBytes bytes
MaxConfigItems == 4  \* files handed in while the settings dialog is used
MaxConfigConc == 3   \* the dialog's choices 1..MaxConfigConc of maxConcurrency

\* ---- program constants ----
MaxTimes == 20       \* processingTimes keeps the most recent 20 samples

Priorities == {"high", "normal", "low"}
Statuses == {"pending", "processing", "completed", "failed", "paused"}
NoError == "undefined"
\* The message of the rejection; which of compressImage's messages it is plays
\* no part in the coordinator.
ErrorMessages == {"Failed to compress image"}

VARIABLES
  queue,            \* this.queue, as the sequence of the items' ids
  items,            \* the QueueItem objects, by id (those of the queue and
                    \* those a pending compressImage call still refers to)
  processing,       \* this.processing
  config,           \* this.config
  isPaused,         \* this.isPaused
  isRunning,        \* this.isRunning
  processingTimes,  \* this.processingTimes (every sample is one time unit)
  progress,         \* the BatchProgress last handed to onProgress
  sleepers,         \* dispatch loops awaiting the 100 ms timer of line 121
  pollers,          \* dispatch loops inside waitForSlot, polling every 100 ms
  hung,             \* a dispatch loop re-runs as a microtask for ever
  nextId,           \* ids handed out so far + 1
  pauseWindow,      \* history: pause() was called and resume() not since
  errorWindow,      \* history: processItem paused on an error and resume()
                    \* was not called since
  call              \* the call into the image library under way, with its
                    \* arguments and what it has computed so far (NoCall
                    \* while the coordinator is looked at on its own)

batchVars == <<queue, items, processing, config, isPaused, isRunning,
               processingTimes, progress, sleepers, pollers, hung, nextId,
               pauseWindow, errorWindow>>

vars == <<queue, items, processing, config, isPaused, isRunning,
          processingTimes, progress, sleepers, pollers, hung, nextId,
          pauseWindow, errorWindow, call>>

NoCall == [op |-> "none"]

\* ---- helpers ----
Min(a, b) == IF a < b THEN a ELSE b
Max(a, b) == IF a > b THEN a ELSE b
Range(s) == {s[i] : i \in 1..Len(s)}

\* Array.prototype.slice(0, end): a negative end counts from the end.
JsSlice(s, end) ==
  LET e == IF end < 0 THEN Max(Len(s) + end, 0) ELSE Min(end, Len(s))
  IN SubSeq(s, 1, e)

\* Number of queue entries whose item has the given status.
CountStatus(q, its, st) == Cardinality({i \in 1..Len(q) : its[q[i]].status = st})

\* Item objects still reachable: from the queue or from a pending operation.
Reachable(q, its) ==
  {id \in DOMAIN its : id \in Range(q) \/ its[id].status = "processing"}
Collect(q, its) == [id \in Reachable(q, its) |-> its[id]]

\* getProgress(); the average processing time is represented by the number
\* of samples it averages over.
getProgress(q, its, paused, times) ==
  LET completed == CountStatus(q, its, "completed")
      failed == CountStatus(q, its, "failed")
      inProcessing == CountStatus(q, its, "processing")
      pending == CountStatus(q, its, "pending")
  IN [total |-> Len(q),
      completed |-> completed,
      failed |-> failed,
      processing |-> inProcessing,
      pending |-> IF paused THEN 0 ELSE pending,
      paused |-> IF paused THEN pending + inProcessing ELSE 0,
      samples |-> Len(times)]

\* ---- addToQueue: the comparator and the sort of the new items ----
priorityOrder(p) == IF p = "high" THEN 3 ELSE IF p = "normal" THEN 2 ELSE 1

\* Mutation: the comparator does not look at the sizes.
compareItemsByPriorityOnly(a, b) ==
  priorityOrder(b.priority) - priorityOrder(a.priority)

\* The comparator handed to newItems.sort.
compareItems(a, b) ==
  LET priorityDiff == priorityOrder(b.priority) - priorityOrder(a.priority)
  IN IF priorityDiff # 0 THEN priorityDiff ELSE a.size - b.size

\* Array.prototype.sort is stable: x goes behind every element that does not
\* compare greater than it.
RECURSIVE InsertSorted(_, _, _)
InsertSorted(x, s, its) ==
  IF s = <<>> THEN <<x>>
  ELSE IF compareItems(its[Head(s)], its[x]) <= 0
       THEN <<Head(s)>> \o InsertSorted(x, Tail(s), its)
       ELSE <<x>> \o s

RECURSIVE SortItems(_, _)
SortItems(s, its) ==
  IF s = <<>> THEN <<>>
  ELSE InsertSorted(s[Len(s)], SortItems(SubSeq(s, 1, Len(s) - 1), its), its)

\* ---- the dispatch loop ----
\* processItem up to its await, for each selected item: the item joins the
\* processing set and becomes 'processing' (attempts is history: the number
\* of times the item was handed to processItem since it was created or last
\* reset by retryFailed).
Dispatch(sel, its) ==
  [id \in DOMAIN its |->
     IF id \in Range(sel)
     THEN [its[id] EXCEPT !.status = "processing", !.attempts = @ + 1]
     ELSE its[id]]

\* The while loop of startProcessing from its head to the next point where it
\* has to wait for a timer.  pc tells where the loop is afterwards:
\*   "done"  the loop condition failed and isRunning was reset,
\*   "sleep" items were selected and the loop awaits the 100 ms timer,
\*   "poll"  nothing is pending, no slot is free, waitForSlot polls,
\*   "spin"  nothing is pending and waitForSlot resolved at once: the loop
\*           continues as a microtask in the same state, again and again.
\* Mutation: the loop does not look at isPaused.
loopConditionIgnoringPause(q, run, paused) == Len(q) > 0 /\ run

\* The condition of the while loop.
loopCondition(q, run, paused) == Len(q) > 0 /\ run /\ ~paused

\* Mutation: the slots already taken are not subtracted.
availableSlotsIgnoringProcessing(cfg, proc) == cfg.maxConcurrency

\* const availableSlots = this.config.maxConcurrency - this.processing.size
availableSlots(cfg, proc) == cfg.maxConcurrency - Cardinality(proc)

\* checkSlot of waitForSlot: may the waiting loop go on?
checkSlot(cfg, proc, run) == Cardinality(proc) < cfg.maxConcurrency \/ ~run

LoopBody(q, its, proc, cfg, run, paused) ==
  IF ~loopCondition(q, run, paused)
  THEN [items |-> its, processing |-> proc, isRunning |-> FALSE, pc |-> "done"]
  ELSE LET pendingItems ==
             SelectSeq(q, LAMBDA id : its[id].status = "pending" /\ id \notin proc)
           itemsToProcess == JsSlice(pendingItems, availableSlots(cfg, proc))
       IN IF pendingItems = <<>>
          THEN [items |-> its, processing |-> proc, isRunning |-> run,
                pc |-> IF checkSlot(cfg, proc, run) THEN "spin" ELSE "poll"]
          ELSE [items |-> Dispatch(itemsToProcess, its),
                processing |-> proc \cup Range(itemsToProcess),
                isRunning |-> run, pc |-> "sleep"]

\* Mutation: a paused coordinator is started as well.
autoStartWhilePaused(run, paused) == ~run

\* if (!this.isRunning && !this.isPaused) of addToQueue and retryFailed.
autoStart(run, paused) == ~run /\ ~paused

\* startProcessing(), called from addToQueue, resume and retryFailed.
startProcessing(q, its, proc, cfg, run, paused) ==
  IF run
  THEN [items |-> its, processing |-> proc, isRunning |-> run,
        isPaused |-> paused, pc |-> "none"]
  ELSE LET r == LoopBody(q, its, proc, cfg, TRUE, FALSE)
       IN [items |-> r.items, processing |-> r.processing,
           isRunning |-> r.isRunning, isPaused |-> FALSE, pc |-> r.pc]

\* The loop that just ran is now where pc says.
Park(pc, s, p) ==
  /\ sleepers' = s + (IF pc = "sleep" THEN 1 ELSE 0)
  /\ pollers' = p + (IF pc = "poll" THEN 1 ELSE 0)
  /\ hung' = (pc = "spin")
  /\ sleepers' + pollers' <= MaxLoops

updateProgress == progress' = getProgress(queue', items', isPaused', processingTimes')

\* ---- initial state: the constructor ----
\* maxConcurrency, retryLimit and pauseOnError are given to the constructor;
\* prioritizeSmallFiles keeps its default.
Configs == [maxConcurrency : 1..MaxConc, retryLimit : 0..MaxRetry,
            pauseOnError : BOOLEAN, prioritizeSmallFiles : {TRUE}]

Init ==
  /\ queue = <<>>
  /\ items = <<>>
  /\ processing = {}
  /\ config \in Configs
  /\ isPaused = FALSE
  /\ isRunning = FALSE
  /\ processingTimes = <<>>
  /\ progress = getProgress(<<>>, <<>>, FALSE, <<>>)
  /\ sleepers = 0
  /\ pollers = 0
  /\ hung = FALSE
  /\ nextId = 1
  /\ pauseWindow = FALSE
  /\ errorWindow = FALSE
  /\ call = NoCall

\* ---- user calls ----
\* addToQueue(files, settings, priority); files is the sequence of the files'
\* originalSize.  held is history: the item was added while the coordinator
\* was paused and resume() has not been called since.
AddFiles(files, priority, limit) ==
  /\ ~hung
  /\ nextId + Len(files) - 1 <= limit
  /\ LET newIds == [i \in 1..Len(files) |-> nextId + i - 1]
         created == [id \in DOMAIN items \cup Range(newIds) |->
                       IF id \in DOMAIN items THEN items[id]
                       ELSE [status |-> "pending", retryCount |-> 0,
                             error |-> NoError, priority |-> priority,
                             size |-> files[id - nextId + 1],
                             attempts |-> 0, held |-> isPaused]]
         newItems == IF config.prioritizeSmallFiles
                     THEN SortItems(newIds, created) ELSE newIds
         q == queue \o newItems
         r == IF autoStart(isRunning, isPaused)
              THEN startProcessing(q, created, processing, config, isRunning, isPaused)
              ELSE [items |-> created, processing |-> processing,
                    isRunning |-> isRunning, isPaused |-> isPaused, pc |-> "none"]
     IN /\ queue' = q
        /\ items' = r.items
        /\ processing' = r.processing
        /\ isRunning' = r.isRunning
        /\ isPaused' = r.isPaused
        /\ Park(r.pc, sleepers, pollers)
        /\ nextId' = nextId + Len(files)
  /\ UNCHANGED <<config, processingTimes, pauseWindow, errorWindow>>
  /\ updateProgress
  /\ UNCHANGED call

\* At most MaxItems files are handed in altogether.
AddToQueue(files, priority) == AddFiles(files, priority, MaxItems)

\* updateConfig(newConfig): the settings dialog hands in the whole
\* configuration; no progress report is made.
updateConfig(cfg, newConfig) ==
  [maxConcurrency |-> newConfig.maxConcurrency, retryLimit |-> newConfig.retryLimit,
   pauseOnError |-> newConfig.pauseOnError,
   prioritizeSmallFiles |-> newConfig.prioritizeSmallFiles]

UpdateConfig(newConfig) ==
  /\ ~hung
  /\ config' = updateConfig(config, newConfig)
  /\ UNCHANGED <<queue, items, processing, isPaused, isRunning, processingTimes,
                 progress, sleepers, pollers, hung, nextId, pauseWindow, errorWindow>>
  /\ UNCHANGED call

pause ==
  /\ ~hung
  /\ isPaused' = TRUE
  /\ pauseWindow' = TRUE
  /\ UNCHANGED <<queue, items, processing, config, isRunning, processingTimes,
                 sleepers, pollers, hung, nextId, errorWindow>>
  /\ updateProgress
  /\ UNCHANGED call

resume ==
  /\ ~hung
  /\ LET r == startProcessing(queue, items, processing, config, isRunning, FALSE)
     IN /\ items' = [id \in DOMAIN r.items |-> [r.items[id] EXCEPT !.held = FALSE]]
        /\ processing' = r.processing
        /\ isRunning' = r.isRunning
        /\ isPaused' = r.isPaused
        /\ Park(r.pc, sleepers, pollers)
  /\ pauseWindow' = FALSE
  /\ errorWindow' = FALSE
  /\ UNCHANGED <<queue, config, processingTimes, nextId>>
  /\ updateProgress
  /\ UNCHANGED call

stop ==
  /\ ~hung
  /\ isRunning' = FALSE
  /\ isPaused' = FALSE
  /\ processing' = {}
  /\ queue' = <<>>
  /\ items' = Collect(<<>>, items)
  /\ processingTimes' = <<>>
  /\ UNCHANGED <<config, sleepers, pollers, hung, nextId, pauseWindow, errorWindow>>
  /\ updateProgress
  /\ UNCHANGED call

clearCompleted ==
  /\ ~hung
  /\ queue' = SelectSeq(queue, LAMBDA id : items[id].status # "completed"
                                           /\ items[id].status # "failed")
  /\ items' = Collect(queue', items)
  /\ UNCHANGED <<processing, config, isPaused, isRunning, processingTimes,
                 sleepers, pollers, hung, nextId, pauseWindow, errorWindow>>
  /\ updateProgress
  /\ UNCHANGED call

\* Mutation: completed items are reset as well.
resetFailedOrCompleted(item) ==
  IF item.status = "failed" \/ item.status = "completed"
  THEN [item EXCEPT !.status = "pending", !.retryCount = 0,
                    !.error = NoError, !.attempts = 0]
  ELSE item

\* The forEach body of retryFailed.
resetFailed(item) ==
  IF item.status = "failed"
  THEN [item EXCEPT !.status = "pending", !.retryCount = 0,
                    !.error = NoError, !.attempts = 0]
  ELSE item

retryFailed ==
  /\ ~hung
  /\ LET reset == [id \in DOMAIN items |->
                     IF id \in Range(queue) THEN resetFailed(items[id])
                     ELSE items[id]]
         r == IF autoStart(isRunning, isPaused)
              THEN startProcessing(queue, reset, processing, config, isRunning, isPaused)
              ELSE [items |-> reset, processing |-> processing,
                    isRunning |-> isRunning, isPaused |-> isPaused, pc |-> "none"]
     IN /\ items' = r.items
        /\ processing' = r.processing
        /\ isRunning' = r.isRunning
        /\ isPaused' = r.isPaused
        /\ Park(r.pc, sleepers, pollers)
  /\ UNCHANGED <<queue, config, processingTimes, nextId, pauseWindow, errorWindow>>
  /\ updateProgress
  /\ UNCHANGED call

\* ---- timers of the dispatch loops ----
\* The 100 ms timer of line 121 fires and the loop goes round.
TimerFires ==
  /\ ~hung
  /\ sleepers > 0
  /\ LET r == LoopBody(queue, items, processing, config, isRunning, isPaused)
     IN /\ items' = r.items
        /\ processing' = r.processing
        /\ isRunning' = r.isRunning
        /\ Park(r.pc, sleepers - 1, pollers)
  /\ UNCHANGED <<queue, config, isPaused, processingTimes, nextId, pauseWindow, errorWindow>>
  /\ updateProgress
  /\ UNCHANGED call

\* checkSlot of waitForSlot finds a free slot (or the coordinator stopped),
\* resolves, and the loop goes round.  While it finds neither it re-arms its
\* timer and nothing changes.
PollFires ==
  /\ ~hung
  /\ pollers > 0
  /\ checkSlot(config, processing, isRunning)
  /\ LET r == LoopBody(queue, items, processing, config, isRunning, isPaused)
     IN /\ items' = r.items
        /\ processing' = r.processing
        /\ isRunning' = r.isRunning
        /\ Park(r.pc, sleepers, pollers - 1)
  /\ UNCHANGED <<queue, config, isPaused, processingTimes, nextId, pauseWindow, errorWindow>>
  /\ updateProgress
  /\ UNCHANGED call

\* ---- the end of one compressImage call (processItem after its await) ----
\* An operation is pending exactly for the items whose status is
\* 'processing', in the queue or not.
completeItem(item) == [item EXCEPT !.status = "completed"]

Complete(id) ==
  /\ ~hung
  /\ id \in DOMAIN items
  /\ items[id].status = "processing"
  /\ LET done == [items EXCEPT ![id] = completeItem(items[id])]
         pushed == Append(processingTimes, 1)
     IN /\ items' = Collect(queue, done)
        /\ processingTimes' = IF Len(pushed) > MaxTimes THEN Tail(pushed) ELSE pushed
  /\ processing' = processing \ {id}
  /\ UNCHANGED <<queue, config, isPaused, isRunning, sleepers, pollers, hung,
                 nextId, pauseWindow, errorWindow>>
  /\ updateProgress
  /\ UNCHANGED call

\* Mutation: one retry more than retryLimit allows.
shouldRetryOnceMore(item, cfg) == item.retryCount <= cfg.retryLimit

\* The catch block of processItem.
shouldRetry(item, cfg) == item.retryCount < cfg.retryLimit

\* Mutation: the error message is not stored on the item.
failItemUnrecorded(item, cfg, errorMessage) ==
  IF shouldRetry(item, cfg)
  THEN [item EXCEPT !.retryCount = @ + 1, !.status = "pending"]
  ELSE [item EXCEPT !.status = "failed"]

\* Mutation: the retry count is incremented before it is compared.
failItemIncrementFirst(item, cfg, errorMessage) ==
  IF item.retryCount + 1 < cfg.retryLimit
  THEN [item EXCEPT !.error = errorMessage, !.retryCount = @ + 1,
                    !.status = "pending"]
  ELSE [item EXCEPT !.error = errorMessage, !.retryCount = @ + 1,
                    !.status = "failed"]

failItem(item, cfg, errorMessage) ==
  IF shouldRetry(item, cfg)
  THEN [item EXCEPT !.error = errorMessage, !.retryCount = @ + 1,
                    !.status = "pending"]
  ELSE [item EXCEPT !.error = errorMessage, !.status = "failed"]

\* Mutation: pauseOnError is not consulted.
neverPausesOnError(item, cfg) == FALSE

\* if (this.config.pauseOnError) this.pause(), reached when the item failed.
pausesOnError(item, cfg) == ~shouldRetry(item, cfg) /\ cfg.pauseOnError

Fail(id, errorMessage) ==
  /\ ~hung
  /\ id \in DOMAIN items
  /\ items[id].status = "processing"
  /\ LET after == [items EXCEPT ![id] = failItem(items[id], config, errorMessage)]
         pauses == pausesOnError(items[id], config)
     IN /\ items' = Collect(queue, after)
        /\ isPaused' = IF pauses THEN TRUE ELSE isPaused
        /\ pauseWindow' = IF pauses THEN TRUE ELSE pauseWindow
        /\ errorWindow' = IF pauses THEN TRUE ELSE errorWindow
  /\ processing' = processing \ {id}
  /\ UNCHANGED <<queue, config, isRunning, processingTimes, sleepers, pollers,
                 hung, nextId>>
  /\ updateProgress
  /\ UNCHANGED call

\* ---- specification ----
\* Both callers (handleCompressAll, handleBatchProcess) pass 'normal'.
UsedPriorities == {"normal"}
FileLists == UNION {[1..n -> 1..MaxSize] : n \in 0..MaxBatch}

Next ==
  \/ \E files \in FileLists, priority \in UsedPriorities : AddToQueue(files, priority)
  \/ pause
  \/ resume
  \/ stop
  \/ clearCompleted
  \/ retryFailed
  \/ TimerFires
  \/ PollFires
  \/ \E id \in DOMAIN items : Complete(id)
  \/ \E id \in DOMAIN items, errorMessage \in ErrorMessages : Fail(id, errorMessage)

Spec == Init /\ [][Next]_vars

\* The browser runs every timer that is due and settles every compressImage call
\* whenever the event loop gets its turn; the user's calls are under no
\* obligation.
Fairness ==
  /\ WF_vars(TimerFires)
  /\ WF_vars(PollFires)
  /\ \A id \in 1..MaxItems :
       WF_vars(Complete(id) \/ \E errorMessage \in ErrorMessages : Fail(id, errorMessage))

\* The same calls, over fewer items.
FairNext == Next /\ nextId' <= MaxFairItems + 1

FairSpec == Init /\ [][FairNext]_vars /\ Fairness

\* A batch left to itself: files are added and nothing else is called.
UnattendedNext ==
  \/ \E files \in FileLists, priority \in UsedPriorities : AddToQueue(files, priority)
  \/ TimerFires
  \/ PollFires
  \/ \E id \in DOMAIN items : Complete(id)
  \/ \E id \in DOMAIN items, errorMessage \in ErrorMessages : Fail(id, errorMessage)

UnattendedSpec == Init /\ [][UnattendedNext]_vars /\ Fairness

\* The ordering of addToQueue: files of different sizes, every priority, and
\* prioritizeSmallFiles as the batch settings dialog sets it.
SortConfigs == [maxConcurrency : 1..MaxConc, retryLimit : {0},
                pauseOnError : {FALSE}, prioritizeSmallFiles : BOOLEAN]
SortFileLists == UNION {[1..n -> 1..MaxSortSize] : n \in 0..MaxSortBatch}

SortInit ==
  /\ queue = <<>>
  /\ items = <<>>
  /\ processing = {}
  /\ config \in SortConfigs
  /\ isPaused = FALSE
  /\ isRunning = FALSE
  /\ processingTimes = <<>>
  /\ progress = getProgress(<<>>, <<>>, FALSE, <<>>)
  /\ sleepers = 0
  /\ pollers = 0
  /\ hung = FALSE
  /\ nextId = 1
  /\ pauseWindow = FALSE
  /\ errorWindow = FALSE
  /\ call = NoCall

SortNext ==
  \/ \E files \in SortFileLists, priority \in Priorities : AddToQueue(files, priority)
  \/ pause
  \/ resume
  \/ TimerFires
  \/ PollFires
  \/ \E id \in DOMAIN items : Complete(id)
  \/ \E id \in DOMAIN items, errorMessage \in ErrorMessages : Fail(id, errorMessage)

SortSpec == SortInit /\ [][SortNext]_vars

\* ---- image-compression.ts: the dimensions of the output ----
Modes == {"aggressive", "balanced", "gentle"}

getMaxSize(mode) ==
  IF mode = "aggressive" THEN 1200
  ELSE IF mode = "balanced" THEN 1920
  ELSE IF mode = "gentle" THEN 2560
  ELSE 1920

isWebOptimized(settings) == settings.mode = "balanced" \/ settings.mode = "aggressive"

\* Math.round(n / d) for n >= 0 and d > 0: the nearest integer, a half going
\* up.  n / d is a double; where it is the result of two roundings (a quotient
\* of a quotient, a product with a quotient) and the exact value is a half,
\* the double may lie just below the half: below tells whether it does.
MathRound(n, d, below) ==
  IF below /\ (2 * n) % (2 * d) = d
  THEN (2 * n - d) \div (2 * d)
  ELSE (2 * n + d) \div (2 * d)

\* Mutation: the sides are not rounded to even numbers.
roundToEvenSkipped(side) == side

\* Math.round(side / 2) * 2 (side / 2 is exact).
roundToEven(side) == MathRound(side, 2, FALSE) * 2

\* Mutation: the larger side is not set to the cap: the sides are left alone.
resizeToCapNever(originalWidth, originalHeight, maxSize, below) ==
  [width |-> originalWidth, height |-> originalHeight]

\* Lines 169-177: the larger side becomes maxSize, the other follows the
\* aspect ratio originalWidth / originalHeight.
resizeToCap(originalWidth, originalHeight, maxSize, below) ==
  IF originalWidth > maxSize \/ originalHeight > maxSize
  THEN IF originalWidth > originalHeight
       THEN [width |-> maxSize,
             height |-> MathRound(maxSize * originalHeight, originalWidth, below)]
       ELSE [width |-> MathRound(maxSize * originalWidth, originalHeight, below),
             height |-> maxSize]
  ELSE [width |-> originalWidth, height |-> originalHeight]

\* Lines 184-191: ratio = min(webMaxSize / width, webMaxSize / height) is
\* webMaxSize over the larger side.
webConstrain(dims, settings, below) ==
  LET webMaxSize == Min(getMaxSize(settings.mode), 1920)
      larger == Max(dims.width, dims.height)
  IN IF isWebOptimized(settings)
        /\ (dims.width > webMaxSize \/ dims.height > webMaxSize)
     THEN [width |-> MathRound(dims.width * webMaxSize, 2 * larger, below) * 2,
           height |-> MathRound(dims.height * webMaxSize, 2 * larger, below) * 2]
     ELSE dims

calculateOptimalDimensions(originalWidth, originalHeight, settings, below) ==
  LET resized == resizeToCap(originalWidth, originalHeight,
                             getMaxSize(settings.mode), below)
      even == [width |-> roundToEven(resized.width),
               height |-> roundToEven(resized.height)]
  IN webConstrain(even, settings, below)

\* Sides of the images looked at: small ones, and ones around the caps and
\* their multiples.
Caps == {getMaxSize(mode) : mode \in Modes}
Sides ==
  (1..MaxSmallDim)
    \cup {k * cap + d : k \in 1..MaxScale, cap \in Caps, d \in (0 - MaxNear)..MaxNear}

\* calculateOptimalDimensions is called with the sides of a loaded image
\* (positive integers) and the settings of the page.
GeometryCalls ==
  [op : {"calculateOptimalDimensions"}, stage : {"called"},
   originalWidth : Sides, originalHeight : Sides,
   settings : [quality : {80}, mode : Modes], below : BOOLEAN]

\* The coordinator as constructed by default, with nothing added to it.
BatchIdle ==
  /\ queue = <<>>
  /\ items = <<>>
  /\ processing = {}
  /\ config = [maxConcurrency |-> 3, retryLimit |-> 2,
               pauseOnError |-> FALSE, prioritizeSmallFiles |-> TRUE]
  /\ isPaused = FALSE
  /\ isRunning = FALSE
  /\ processingTimes = <<>>
  /\ progress = getProgress(<<>>, <<>>, FALSE, <<>>)
  /\ sleepers = 0
  /\ pollers = 0
  /\ hung = FALSE
  /\ nextId = 1
  /\ pauseWindow = FALSE
  /\ errorWindow = FALSE

GeometryInit == BatchIdle /\ call \in GeometryCalls

PlanGeometry ==
  /\ call.op = "calculateOptimalDimensions" /\ call.stage = "called"
  /\ call' = [stage |-> "returned",
              result |-> calculateOptimalDimensions(call.originalWidth,
                           call.originalHeight, call.settings, call.below)] @@ call
  /\ UNCHANGED batchVars

GeometryNext == PlanGeometry

GeometrySpec == GeometryInit /\ [][GeometryNext]_vars

\* ---- image-compression.ts: the quality handed to the encoder ----
\* Fractions are carried as whole numbers of a unit that is exact for every
\* product below: settings.quality / 100 in units of 1/100, after the mode
\* factor in units of 10^-4, after the resize factor in units of 10^-6, after
\* the size factor in units of 10^-8.  (The doubles of the code differ from
\* the exact products by less than 10^-15.)
Qualities == 10..95

\* Mutation: gentle mode is not capped at 98%.
modeAdjustedUncapped(settings) ==
  IF settings.mode = "aggressive" THEN settings.quality * 75
  ELSE IF settings.mode = "gentle" THEN settings.quality * 115
  ELSE settings.quality * 90

\* The switch of lines 336-347, in units of 10^-4.
modeAdjusted(settings) ==
  IF settings.mode = "aggressive" THEN settings.quality * 75
  ELSE IF settings.mode = "gentle" THEN Min(settings.quality * 115, 9800)
  ELSE settings.quality * 90

\* Lines 350-359, in units of 10^-6: resizeRatio < 0.5, resizeRatio > 0.9.
resizeAdjusted(baseQuality, originalDimensions, compressedDimensions) ==
  LET compressedArea == compressedDimensions.width * compressedDimensions.height
      originalArea == originalDimensions.width * originalDimensions.height
  IN IF 2 * compressedArea < originalArea THEN baseQuality * 95
     ELSE IF 10 * compressedArea > 9 * originalArea THEN baseQuality * 105
     ELSE baseQuality * 100

\* Lines 362-367, in units of 10^-8.
sizeAdjusted(baseQuality, compressedDimensions) ==
  LET pixelCount == compressedDimensions.width * compressedDimensions.height
  IN IF pixelCount > 2000000 THEN baseQuality * 95
     ELSE IF pixelCount < 500000 THEN baseQuality * 105
     ELSE baseQuality * 100

\* Mutation: the result is not clamped.
clampQualitySkipped(baseQuality) == baseQuality

\* Math.max(0.05, Math.min(0.98, baseQuality)), in units of 10^-8.
clampQuality(baseQuality) == Max(5000000, Min(98000000, baseQuality))

unclampedQuality(settings, originalDimensions, compressedDimensions) ==
  sizeAdjusted(resizeAdjusted(modeAdjusted(settings), originalDimensions,
                              compressedDimensions),
               compressedDimensions)

calculateAdvancedQuality(settings, originalDimensions, compressedDimensions) ==
  clampQuality(unclampedQuality(settings, originalDimensions, compressedDimensions))

\* Dimensions on both sides of the thresholds: pixel counts below, at and
\* above 500,000 and 2,000,000, area ratios below, at and above 0.5 and 0.9.
QualitySides == {500, 900, 1000, 1080, 1920, 2000}
QualityDimensions == [width : QualitySides, height : QualitySides]

QualityCalls ==
  [op : {"calculateAdvancedQuality"}, stage : {"called"},
   settings : [quality : Qualities, mode : Modes],
   originalDimensions : QualityDimensions,
   compressedDimensions : QualityDimensions]

QualityInit == BatchIdle /\ call \in QualityCalls

DeriveQuality ==
  /\ call.op = "calculateAdvancedQuality" /\ call.stage = "called"
  /\ call' = [stage |-> "returned",
              result |-> calculateAdvancedQuality(call.settings,
                           call.originalDimensions, call.compressedDimensions)] @@ call
  /\ UNCHANGED batchVars

QualityNext == DeriveQuality

QualitySpec == QualityInit /\ [][QualityNext]_vars

\* ---- image-compression.ts: which filters compressImage applies ----
shouldApplySharpenFilter(settings) == settings.mode = "gentle" \/ settings.quality > 80

\* The condition of applyPostProcessingFilters for the noise reduction.
shouldApplyNoiseReduction(settings) == settings.mode = "aggressive"

\* The settings of the page: the slider, the mode, and the two switches of
\* the advanced options (handleToggle stores what the user chose).
FilterSettings ==
  [quality : Qualities, mode : Modes, sharpenFilter : BOOLEAN, noiseReduction : BOOLEAN]

\* A file that loads as an image is not empty.
CompressCalls ==
  [op : {"compressImage"}, stage : {"loaded"}, settings : FilterSettings,
   fileSize : 1..MaxBytes]

CompressInit == BatchIdle /\ call \in CompressCalls

\* Lines 66-71: the image is drawn, through applyUnsharpMask or directly.
DrawImage ==
  /\ call.op = "compressImage" /\ call.stage = "loaded"
  /\ call' = [stage |-> "drawn",
              sharpened |-> shouldApplySharpenFilter(call.settings)] @@ call
  /\ UNCHANGED batchVars

\* Line 76: applyPostProcessingFilters.
PostProcess ==
  /\ call.op = "compressImage" /\ call.stage = "drawn"
  /\ call' = [stage |-> "filtered",
              denoised |-> shouldApplyNoiseReduction(call.settings)] @@ call
  /\ UNCHANGED batchVars

\* What canvas.toBlob hands to its callback: null, or a blob of some size.
Blobs ==
  {[null |-> TRUE, size |-> 0]} \cup {[null |-> FALSE, size |-> size] : size \in 0..MaxBytes}

\* n / d of two sizes as a JavaScript number: Infinity for d = 0 < n.
Divide(n, d) == [finite |-> d # 0, num |-> n, den |-> d]

\* Lines 86-107: the callback of canvas.toBlob rejects for null and resolves
\* with the blob's size and file.size / blob.size otherwise.
Encode ==
  /\ call.op = "compressImage" /\ call.stage = "filtered"
  /\ \E blob \in Blobs :
       call' = IF blob.null
               THEN [stage |-> "rejected", blob |-> blob,
                     error |-> "Failed to compress image"] @@ call
               ELSE [stage |-> "resolved", blob |-> blob,
                     result |-> [size |-> blob.size,
                                 compressionRatio |-> Divide(call.fileSize, blob.size)]] @@ call
  /\ UNCHANGED batchVars

CompressNext == DrawImage \/ PostProcess \/ Encode

CompressSpec == CompressInit /\ [][CompressNext]_vars

\* ---- image-compression.ts: the two filters on ImageData ----
\* A raster is [width, height, data]; data[y * width + x + 1] is the pixel at
\* (x, y), a record of the four samples r, g, b, a.
Abs(n) == IF n < 0 THEN 0 - n ELSE n

\* Three times the mean (r + g + b) / 3 the code calls center / neighbors.
graySum(pixel) == pixel.r + pixel.g + pixel.b

\* The store of n / d into a Uint8ClampedArray: the nearest integer, a half
\* going to the even neighbour, clamped to 0..255.
ToUint8Clamped(n, d) ==
  LET q == n \div d
      r == n % d
      nearest == IF 2 * r < d THEN q
                 ELSE IF 2 * r > d THEN q + 1
                 ELSE IF q % 2 = 0 THEN q ELSE q + 1
  IN Max(0, Min(255, nearest))

\* Line 239.
sharpenInterior(x, y, width, height) ==
  x > 0 /\ x < width - 1 /\ y > 0 /\ y < height - 1

\* Lines 234-266 for pixel i.  laplacian = 4 * center - (sum of neighbors) is
\* a third of l3; amount * laplacian = 0.3 * l3 / 3 = l3 / 10.
sharpenPixel(imageData, i) ==
  LET width == imageData.width
      data == imageData.data
      x == (i - 1) % width
      y == (i - 1) \div width
  IN IF sharpenInterior(x, y, width, imageData.height)
     THEN LET l3 == 4 * graySum(data[i]) - graySum(data[i - 1]) - graySum(data[i + 1])
                      - graySum(data[i - width]) - graySum(data[i + width])
          IN IF Abs(l3) > 9
             THEN [r |-> ToUint8Clamped(10 * data[i].r + l3, 10),
                   g |-> ToUint8Clamped(10 * data[i].g + l3, 10),
                   b |-> ToUint8Clamped(10 * data[i].b + l3, 10),
                   a |-> 255]
             ELSE [data[i] EXCEPT !.a = 255]
     ELSE [data[i] EXCEPT !.a = 255]

applyUnsharpMask(imageData) ==
  [width |-> imageData.width, height |-> imageData.height,
   data |-> [i \in 1..(imageData.width * imageData.height) |-> sharpenPixel(imageData, i)]]

\* Mutation: only the outermost pixels are left alone.
smoothInteriorOneFromEdge(x, y, width, height) ==
  x > 0 /\ x < width - 1 /\ y > 0 /\ y < height - 1

\* Line 298.
smoothInterior(x, y, width, height) ==
  x > 1 /\ x < width - 2 /\ y > 1 /\ y < height - 2

\* Lines 299-316 for one channel: the weights 1 / (1 + |dx| + |dy|) are 1,
\* 1/2 and 1/3, their sum is 13/3; numerator and denominator times 6.
smoothChannel(data, i, width, channel) ==
  LET centre == data[i][channel]
      sides == data[i - 1][channel] + data[i + 1][channel]
                 + data[i - width][channel] + data[i + width][channel]
      corners == data[i - width - 1][channel] + data[i - width + 1][channel]
                   + data[i + width - 1][channel] + data[i + width + 1][channel]
  IN MathRound(6 * centre + 3 * sides + 2 * corners, 26, FALSE)

\* Lines 293-323 for pixel i.
smoothPixel(imageData, i) ==
  LET width == imageData.width
      data == imageData.data
      x == (i - 1) % width
      y == (i - 1) \div width
  IN IF smoothInterior(x, y, width, imageData.height)
     THEN [r |-> smoothChannel(data, i, width, "r"),
           g |-> smoothChannel(data, i, width, "g"),
           b |-> smoothChannel(data, i, width, "b"),
           a |-> 255]
     ELSE [data[i] EXCEPT !.a = 255]

applyNoiseReduction(imageData) ==
  [width |-> imageData.width, height |-> imageData.height,
   data |-> [i \in 1..(imageData.width * imageData.height) |-> smoothPixel(imageData, i)]]

\* The rasters looked at: one colour all over but for one pixel of another
\* (or the same) colour; the alpha samples are those of an opaque raster or
\* of a transparent one (an ImageData holds any alpha; getImageData of a
\* canvas whose context does not honour alpha: false returns the image's).
Colours ==
  {[r |-> 0, g |-> 0, b |-> 0], [r |-> 100, g |-> 100, b |-> 100],
   [r |-> 255, g |-> 255, b |-> 255], [r |-> 200, g |-> 100, b |-> 0]}
Alphas == {0, 255}

SpotRaster(width, height, ground, spot, at, alpha) ==
  [width |-> width, height |-> height,
   data |-> [i \in 1..(width * height) |->
               LET colour == IF i = at THEN spot ELSE ground
               IN [r |-> colour.r, g |-> colour.g, b |-> colour.b, a |-> alpha]]]

Rasters ==
  {SpotRaster(size[1], size[2], colours[1], colours[2], at, alpha) :
     size \in {wh \in (1..MaxRasterSide) \X (1..MaxRasterSide) : TRUE},
     colours \in Colours \X Colours,
     at \in 1..(MaxRasterSide * MaxRasterSide),
     alpha \in Alphas}

Filters == {"applyUnsharpMask", "applyNoiseReduction"}

FilterCalls ==
  [op : {"filter"}, filter : Filters, stage : {"called"}, imageData : Rasters]

FilterInit == BatchIdle /\ call \in FilterCalls

ApplyFilter ==
  /\ call.op = "filter" /\ call.stage = "called"
  /\ call' = [stage |-> "returned",
              result |-> IF call.filter = "applyUnsharpMask"
                         THEN applyUnsharpMask(call.imageData)
                         ELSE applyNoiseReduction(call.imageData)] @@ call
  /\ UNCHANGED batchVars

FilterNext == ApplyFilter

FilterSpec == FilterInit /\ [][FilterNext]_vars

\* ---- quality-assessment.ts: the metrics ----
\* A JavaScript number is NaN or a value; values are carried in units of
\* 10^-4, cut off below that (PSNR to the whole decibel, square roots to
\* the whole unit).
NaN == [nan |-> TRUE, v |-> 0]
Num(v) == [nan |-> FALSE, v |-> v]
MathMin(a, b) == IF a.nan \/ b.nan THEN NaN ELSE Num(Min(a.v, b.v))
MathMax(a, b) == IF a.nan \/ b.nan THEN NaN ELSE Num(Max(a.v, b.v))

RECURSIVE Sum(_)
Sum(s) == IF s = <<>> THEN 0 ELSE Head(s) + Sum(Tail(s))

\* num / den in units of 10^-4, for den > 0.
Scaled(num, den) ==
  LET k == den \div 100000 + 1
      n == num \div k
      d == Max(den \div k, 1)
  IN (n \div d) * 10000 + ((n % d) * 10000) \div d

\* The whole part of the square root of n >= 0.
RECURSIVE SqrtBetween(_, _, _)
SqrtBetween(n, low, high) ==
  IF low = high THEN low
  ELSE LET mid == (low + high + 1) \div 2
       IN IF mid * mid <= n THEN SqrtBetween(n, mid, high)
          ELSE SqrtBetween(n, low, mid - 1)
MathSqrt(n) == SqrtBetween(n, 0, 46340)

Pixels(imageData) == imageData.width * imageData.height

\* data2[i] is undefined where the second raster is the shorter one, and
\* every sum it enters is NaN.
Covers(compressed, original) == Pixels(compressed) >= Pixels(original)

\* Mutation: only the red samples are compared.
squaredDiffRedOnly(pixel1, pixel2) == (pixel1.r - pixel2.r) * (pixel1.r - pixel2.r)

\* The inner loop of calculateMSE: R, G and B, not alpha.
squaredDiff(pixel1, pixel2) ==
  (pixel1.r - pixel2.r) * (pixel1.r - pixel2.r)
    + (pixel1.g - pixel2.g) * (pixel1.g - pixel2.g)
    + (pixel1.b - pixel2.b) * (pixel1.b - pixel2.b)

\* calculateMSE: the mean sum / count, kept as the pair.
calculateMSE(original, compressed) ==
  IF Covers(compressed, original)
  THEN [nan |-> FALSE,
        sum |-> Sum([i \in 1..Pixels(original) |->
                       squaredDiff(original.data[i], compressed.data[i])]),
        count |-> 3 * Pixels(original)]
  ELSE [nan |-> TRUE, sum |-> 0, count |-> 3 * Pixels(original)]

\* 10 * log10(n / d) to the whole decibel, for n >= d > 0.
RECURSIVE Decibels(_, _)
Decibels(n, d) ==
  IF n >= 10 * d THEN 10 + Decibels(n, 10 * d)
  ELSE LET tenths == <<10, 13, 16, 20, 25, 32, 40, 50, 63, 79>>
       IN Cardinality({j \in 1..10 : 10 * n >= tenths[j] * d}) - 1

\* calculatePSNR: 20 * log10(255 / sqrt(mse)) = 10 * log10(65025 / mse).
calculatePSNR(original, compressed) ==
  LET mse == calculateMSE(original, compressed)
  IN IF mse.nan THEN NaN
     ELSE IF mse.sum = 0 THEN Num(100 * 10000)
     ELSE Num(Decibels(65025 * mse.count, mse.sum) * 10000)

\* calculateSSIM; a is three times the gray value of the code.  With
\* A = sum of a over the n pixels, mean = A / 3n, and the variances and the
\* covariance are sums of (n a - A)(n b - B) over 9 n^3.
calculateSSIM(original, compressed) ==
  IF ~Covers(compressed, original) THEN NaN
  ELSE
    LET n == Pixels(original)
        a == [i \in 1..n |-> graySum(original.data[i])]
        b == [i \in 1..n |-> graySum(compressed.data[i])]
        sumA == Sum(a)
        sumB == Sum(b)
        var1 == Sum([i \in 1..n |-> (n * a[i] - sumA) * (n * a[i] - sumA)])
        var2 == Sum([i \in 1..n |-> (n * b[i] - sumB) * (n * b[i] - sumB)])
        covar == Sum([i \in 1..n |-> (n * a[i] - sumA) * (n * b[i] - sumB)])
        c1 == 65025
        c2 == 585225
        means == Scaled(Scaled(2 * sumA * sumB, 9 * n * n) + c1,
                        Scaled(sumA * sumA + sumB * sumB, 9 * n * n) + c1)
        spread == Scaled(Scaled(2 * covar, 9 * n * n * n) + c2,
                         Scaled(var1 + var2, 9 * n * n * n) + c2)
    IN Num((means * spread) \div 10000)

\* getGrayValue, times three; x and y count from 0.
getGrayValue(imageData, x, y) == graySum(imageData.data[y * imageData.width + x + 1])

\* The pixels with all eight neighbours.
Interior(imageData) ==
  {xy \in (1..(imageData.width - 2)) \X (1..(imageData.height - 2)) : TRUE}

sobelMagnitude(imageData, x, y) ==
  LET g(dx, dy) == getGrayValue(imageData, x + dx, y + dy)
      sobelX == 0 - g(0 - 1, 0 - 1) + g(1, 0 - 1) - 2 * g(0 - 1, 0) + 2 * g(1, 0)
                  - g(0 - 1, 1) + g(1, 1)
      sobelY == 0 - g(0 - 1, 0 - 1) - 2 * g(0, 0 - 1) - g(1, 0 - 1)
                  + g(0 - 1, 1) + 2 * g(0, 1) + g(1, 1)
  IN MathSqrt(sobelX * sobelX + sobelY * sobelY)

RECURSIVE SumOfMagnitudes(_, _)
SumOfMagnitudes(imageData, pixels) ==
  IF pixels = {} THEN 0
  ELSE LET xy == CHOOSE p \in pixels : TRUE
       IN sobelMagnitude(imageData, xy[1], xy[2])
            + SumOfMagnitudes(imageData, pixels \ {xy})

\* Mutation: a raster without interior pixels counts as perfectly sharp.
calculateSharpnessOneWithoutInterior(imageData) ==
  LET count == Cardinality(Interior(imageData))
  IN IF count > 0
     THEN Num(Scaled(SumOfMagnitudes(imageData, Interior(imageData)), 3 * 255 * count))
     ELSE Num(10000)

\* calculateSharpness: (sharpness / count) / 255, the magnitudes being a
\* third of those of the gray sums.
calculateSharpness(imageData) ==
  LET count == Cardinality(Interior(imageData))
  IN IF count > 0
     THEN Num(Scaled(SumOfMagnitudes(imageData, Interior(imageData)), 3 * 255 * count))
     ELSE Num(0)

\* calculateContrast: the standard deviation of the gray values over 255.
calculateContrast(imageData) ==
  LET n == Pixels(imageData)
      a == [i \in 1..n |-> graySum(imageData.data[i])]
      sumA == Sum(a)
      variance == Sum([i \in 1..n |-> (n * a[i] - sumA) * (n * a[i] - sumA)])
  IN Num((MathSqrt(Scaled(variance, 9 * n * n * n)) * 100) \div 255)

\* calculateColorfulness: rg = |r - g|, and yb is half of |r + g - 2 b|.
calculateColorfulness(imageData) ==
  LET n == Pixels(imageData)
      rg == [i \in 1..n |-> Abs(imageData.data[i].r - imageData.data[i].g)]
      yb == [i \in 1..n |-> Abs(imageData.data[i].r + imageData.data[i].g
                                  - 2 * imageData.data[i].b)]
      sumRG == Sum(rg)
      sumYB == Sum(yb)
      varRG == Sum([i \in 1..n |-> (n * rg[i] - sumRG) * (n * rg[i] - sumRG)])
      varYB == Sum([i \in 1..n |-> (n * yb[i] - sumYB) * (n * yb[i] - sumYB)])
  IN Num((MathSqrt(Scaled(4 * varRG + varYB, 4 * n * n * n)) * 100) \div 255)

\* calculateFileEfficiency; the compression ratio in hundredths.
calculateFileEfficiency(originalSize, compressedSize, psnr) ==
  LET compressionRatio == Scaled(originalSize, compressedSize) \div 100
      qualityFactor == MathMin(Num(psnr.v \div 40), Num(10000))
  IN IF psnr.nan THEN NaN
     ELSE Num(((compressionRatio * qualityFactor.v) \div 100) \div 10)

\* Math.round(score * 100) of a score that is not NaN: the weights are
\* hundredths, so the weighted sum is score * 100 in units of 10^-4.
roundScore(weighted) == MathRound(weighted, 10000, FALSE)

\* calculateOverallQuality.
calculateOverallQuality(metrics) ==
  LET normalizedPSNR == MathMin(Num(metrics.psnr.v \div 40), Num(10000))
      normalizedSSIM == MathMax(Num(0), metrics.ssim)
      normalizedSharpness == MathMin(Num(metrics.sharpness.v * 2), Num(10000))
      normalizedContrast == MathMin(Num(metrics.contrast.v * 2), Num(10000))
      normalizedColorfulness == MathMin(Num(metrics.colorfulness.v * 2), Num(10000))
      normalizedEfficiency == MathMin(Num(metrics.fileEfficiency.v \div 2), Num(10000))
  IN IF metrics.psnr.nan \/ metrics.ssim.nan \/ metrics.sharpness.nan
        \/ metrics.contrast.nan \/ metrics.colorfulness.nan
        \/ metrics.fileEfficiency.nan
     THEN NaN
     ELSE Num(roundScore(normalizedPSNR.v * 30 + normalizedSSIM.v * 25
                         + normalizedSharpness.v * 20 + normalizedContrast.v * 10
                         + normalizedColorfulness.v * 10 + normalizedEfficiency.v * 5))

\* analyzeImageQuality once both images are loaded.
qualityMetrics(originalData, compressedData, originalSize, compressedSize) ==
  LET psnr == calculatePSNR(originalData, compressedData)
      ssim == calculateSSIM(originalData, compressedData)
      sharpness == calculateSharpness(compressedData)
      contrast == calculateContrast(compressedData)
      colorfulness == calculateColorfulness(compressedData)
      fileEfficiency == calculateFileEfficiency(originalSize, compressedSize, psnr)
  IN [psnr |-> psnr, ssim |-> ssim,
      mse |-> calculateMSE(originalData, compressedData),
      sharpness |-> sharpness, contrast |-> contrast,
      colorfulness |-> colorfulness, fileEfficiency |-> fileEfficiency,
      overallQuality |-> calculateOverallQuality(
        [psnr |-> psnr, ssim |-> ssim, sharpness |-> sharpness,
         contrast |-> contrast, colorfulness |-> colorfulness,
         fileEfficiency |-> fileEfficiency])]

\* The rasters of two images that loaded (neither is empty), of the same size
\* or not, and the sizes of their files (which are not empty either).
MetricColours ==
  {[r |-> 0, g |-> 0, b |-> 0], [r |-> 255, g |-> 255, b |-> 255],
   [r |-> 0, g |-> 200, b |-> 100]}

MetricRasters ==
  {SpotRaster(side, side, colours[1], colours[2], at, 255) :
     side \in 1..MaxMetricSide,
     colours \in MetricColours \X MetricColours,
     at \in 1..(MaxMetricSide * MaxMetricSide)}

FileSizes == {1, 50}

MetricCalls ==
  [op : {"analyzeImageQuality"}, stage : {"loaded"},
   originalData : MetricRasters, compressedData : MetricRasters,
   originalSize : FileSizes, compressedSize : FileSizes]

MetricInit == BatchIdle /\ call \in MetricCalls

Analyze ==
  /\ call.op = "analyzeImageQuality" /\ call.stage = "loaded"
  /\ call' = [stage |-> "returned",
              report |-> qualityMetrics(call.originalData, call.compressedData,
                                        call.originalSize, call.compressedSize)] @@ call
  /\ UNCHANGED batchVars

MetricNext == Analyze

MetricSpec == MetricInit /\ [][MetricNext]_vars

\* ---- the scenario of a solid-gray image that compresses without loss ----
\* Both files decode to the same raster, every pixel of which has the same
\* gray value; the score of such a pair does not depend on the side.
Grays == 0..255

SolidGray(side, gray) ==
  LET colour == [r |-> gray, g |-> gray, b |-> gray]
  IN SpotRaster(side, side, colour, colour, 1, 255)

GrayCalls ==
  {[op |-> "analyzeImageQuality", stage |-> "loaded",
    originalData |-> SolidGray(side, gray), compressedData |-> SolidGray(side, gray),
    originalSize |-> sizes[1], compressedSize |-> sizes[2]] :
     side \in 1..MaxGraySide, gray \in Grays, sizes \in FileSizes \X FileSizes}

GrayInit == BatchIdle /\ call \in GrayCalls

GrayNext == Analyze

GraySpec == GrayInit /\ [][GrayNext]_vars

\* ---- file-preview.tsx: handleCompressFile ----
\* score >= bound of a JavaScript number (false for NaN).
AtLeast(score, bound) == ~score.nan /\ score.v >= bound

\* Lines 99-103 of handleCompressFile.
gradeOfScore(qualityScore) ==
  IF AtLeast(qualityScore, 90) THEN "Excellent"
  ELSE IF AtLeast(qualityScore, 80) THEN "Very Good"
  ELSE IF AtLeast(qualityScore, 70) THEN "Good"
  ELSE IF AtLeast(qualityScore, 60) THEN "Fair"
  ELSE "Poor"

\* getQualityGrade of the assessment panel (its grade).
getQualityGrade(score) ==
  IF AtLeast(score, 90) THEN "Excellent"
  ELSE IF AtLeast(score, 80) THEN "Very Good"
  ELSE IF AtLeast(score, 70) THEN "Good"
  ELSE IF AtLeast(score, 60) THEN "Fair"
  ELSE "Poor"

\* What loadImageData returns for an image: a raster of the image's sides.
loadImageData(dimensions) == [width |-> dimensions.width, height |-> dimensions.height]

\* The overallQuality analyzeImageQuality can return for two rasters: NaN
\* when the compressed raster is the shorter one, else a whole number from 0
\* to 100 that depends on the pixels.
Scores(originalData, compressedData) ==
  IF Covers(compressedData, originalData) THEN {Num(v) : v \in 0..100} ELSE {NaN}

PreviewCalls ==
  [op : {"handleCompressFile"}, stage : {"compressing"},
   originalWidth : Sides, originalHeight : Sides,
   settings : [quality : {80}, mode : Modes], below : BOOLEAN]

PreviewInit == BatchIdle /\ call \in PreviewCalls

\* compressImage resolves: the blob holds an image of the planned sides.
CompressResolves ==
  /\ call.op = "handleCompressFile" /\ call.stage = "compressing"
  /\ call' = [stage |-> "assessing",
              compressedDimensions |->
                calculateOptimalDimensions(call.originalWidth, call.originalHeight,
                                           call.settings, call.below)] @@ call
  /\ UNCHANGED batchVars

\* compressImage rejects: the outer catch records the status 'error'.
CompressRejects ==
  /\ call.op = "handleCompressFile" /\ call.stage = "compressing"
  /\ call' = [stage |-> "error"] @@ call
  /\ UNCHANGED batchVars

\* analyzeImageQuality resolves: both images are loaded and compared, and the
\* file is recorded as compressed with the score and its grade.
AssessResolves ==
  /\ call.op = "handleCompressFile" /\ call.stage = "assessing"
  /\ LET originalData == loadImageData([width |-> call.originalWidth,
                                        height |-> call.originalHeight])
         compressedData == loadImageData(call.compressedDimensions)
     IN \E overallQuality \in Scores(originalData, compressedData) :
          call' = [stage |-> "compressed", assessed |-> TRUE,
                   originalData |-> originalData, compressedData |-> compressedData,
                   qualityScore |-> overallQuality,
                   qualityGrade |-> gradeOfScore(overallQuality)] @@ call
  /\ UNCHANGED batchVars

\* analyzeImageQuality rejects (an image does not load): the inner catch
\* leaves qualityScore and qualityGrade as they were initialized.
AssessRejects ==
  /\ call.op = "handleCompressFile" /\ call.stage = "assessing"
  /\ call' = [stage |-> "compressed", assessed |-> FALSE,
              qualityScore |-> Num(0), qualityGrade |-> "Fair"] @@ call
  /\ UNCHANGED batchVars

PreviewNext == CompressResolves \/ CompressRejects \/ AssessResolves \/ AssessRejects

PreviewSpec == PreviewInit /\ [][PreviewNext]_vars

\* ---- the settings dialog of the queue (batch-queue.tsx) ----
\* The coordinator is the singleton, constructed with the defaults; files of
\* one size are added, the dialog's select for maxConcurrency is used, and the
\* compressImage calls resolve.
ConfigChoices ==
  {[config EXCEPT !.maxConcurrency = maxConcurrency] : maxConcurrency \in 1..MaxConfigConc}

ConfigFileLists == UNION {[1..n -> {1}] : n \in 1..MaxConfigItems}

ConfigInit == BatchIdle /\ call = NoCall

ConfigNext ==
  \/ \E files \in ConfigFileLists, priority \in UsedPriorities :
       AddFiles(files, priority, MaxConfigItems)
  \/ \E newConfig \in ConfigChoices : UpdateConfig(newConfig)
  \/ TimerFires
  \/ PollFires
  \/ \E id \in DOMAIN items : Complete(id)

ConfigSpec == ConfigInit /\ [][ConfigNext]_vars

\* ---- properties ----
InQueue(id) == id \in Range(queue)

\* The item is handed to processItem in this step.
Dispatched(id) ==
  /\ id \in DOMAIN items'
  /\ items'[id].status = "processing"
  /\ id \in DOMAIN items => items[id].status # "processing"

\* The compressImage call of a queue item is rejected in this step.
FailStep(id) ==
  /\ id \in DOMAIN items /\ id \in DOMAIN items'
  /\ items[id].status = "processing"
  /\ items'[id].status \in {"pending", "failed"}

\* C1: with the configuration as constructed, the number of queue items whose
\* status is 'processing' never exceeds maxConcurrency.
ProcessingWithinCap ==
  CountStatus(queue, items, "processing") <= config.maxConcurrency

\* The cap is reached while a pending item waits behind it.
CapReachedWithPending ==
  /\ CountStatus(queue, items, "processing") = config.maxConcurrency
  /\ CountStatus(queue, items, "pending") > 0
  /\ isRunning /\ ~isPaused

\* C3: an item all of whose attempts fail is attempted retryLimit + 1 times and
\* is then failed; an item that is pending has failed at most retryLimit times;
\* a failed item stays failed until retryFailed is called.
RetryBudget ==
  \A id \in DOMAIN items :
    LET item == items[id]
    IN /\ item.status = "failed" =>
            item.attempts = config.retryLimit + 1 /\ item.retryCount = config.retryLimit
       /\ item.status = "pending" =>
            item.attempts = item.retryCount /\ item.attempts <= config.retryLimit
       /\ item.status = "processing" => item.attempts = item.retryCount + 1

FailedStays ==
  \A id \in DOMAIN items \cap DOMAIN items' :
    items[id].status = "failed" /\ items'[id].status # "failed" => retryFailed

FailedAfterAllRetries == []RetryBudget /\ [][FailedStays]_vars

\* An item has failed three times under retryLimit = 2 and is failed.
FailedThreeTimes ==
  /\ config.retryLimit = 2
  /\ \E id \in DOMAIN items : items[id].status = "failed" /\ items[id].attempts = 3

\* C4 as stated: every failure increments the retry count, and the item is
\* pending if the incremented count is below retryLimit and failed otherwise.
IncrementThenCompare ==
  [][\A id \in DOMAIN items :
       FailStep(id) =>
         /\ items'[id].retryCount = items[id].retryCount + 1
         /\ items'[id].status =
              (IF items'[id].retryCount < config.retryLimit THEN "pending" ELSE "failed")]_vars

\* C4 as amended: a failure of an item whose retry count is below retryLimit
\* increments the count and returns the item to pending; a failure of an item
\* whose retry count has reached retryLimit marks it failed and leaves the
\* count as it is.
CompareThenIncrement ==
  [][\A id \in DOMAIN items :
       FailStep(id) =>
         IF items[id].retryCount < config.retryLimit
         THEN /\ items'[id].retryCount = items[id].retryCount + 1
              /\ items'[id].status = "pending"
         ELSE /\ items'[id].retryCount = items[id].retryCount
              /\ items'[id].status = "failed"]_vars

\* An item is back in pending with its retry count equal to retryLimit.
PendingAtRetryLimit ==
  \E id \in DOMAIN items :
    /\ items[id].status = "pending"
    /\ items[id].retryCount = config.retryLimit
    /\ config.retryLimit > 0

\* C10: an item changes status only along pending -> processing,
\* processing -> completed, processing -> failed, processing -> pending and
\* failed -> pending; a completed item keeps its status; no item is 'paused'.
AllowedTransitions ==
  {<<"pending", "processing">>, <<"processing", "completed">>,
   <<"processing", "failed">>, <<"processing", "pending">>,
   <<"failed", "pending">>}

StatusMoves ==
  \A id \in DOMAIN items \cap DOMAIN items' :
    /\ items[id].status # items'[id].status =>
         <<items[id].status, items'[id].status>> \in AllowedTransitions
    /\ items[id].status = "processing" /\ items'[id].status = "pending" =>
         \E errorMessage \in ErrorMessages : Fail(id, errorMessage)
    /\ items[id].status = "failed" /\ items'[id].status = "pending" => retryFailed

NeverPausedStatus == \A id \in DOMAIN items : items[id].status \in Statuses \ {"paused"}

ItemLifecycle == []NeverPausedStatus /\ [][StatusMoves]_vars

\* An item was retried and then completed, next to an item reset by retryFailed.
CompletedAfterRetry ==
  \E id \in DOMAIN items : items[id].status = "completed" /\ items[id].retryCount > 0

Finished(id) == id \in DOMAIN items /\ items[id].status \in {"completed", "failed"}
NoDispatch == \A id \in DOMAIN items' : ~Dispatched(id)
FreeSlot == Cardinality(processing) < config.maxConcurrency

\* C2: in a batch that is not stopped and in which retryFailed is not called,
\* every item of the queue eventually is completed or failed, unless the
\* batch is paused.
EveryItemFinishes ==
  \A id \in 1..MaxItems : InQueue(id) ~> (Finished(id) \/ isPaused)

\* C5 as stated: between a call of pause() and the next call of resume() no
\* item goes from pending to processing.
NoDispatchUntilResume == [][pauseWindow /\ pauseWindow' => NoDispatch]_vars

\* C5 as amended: from a call of pause() until resume() or stop() is called
\* (that is, while isPaused holds) no item goes from pending to processing,
\* and an item that is processing during the pause finishes its attempt.
NoDispatchWhilePaused ==
  /\ [][isPaused' => NoDispatch]_vars
  /\ \A id \in 1..MaxItems :
       (isPaused /\ id \in DOMAIN items /\ items[id].status = "processing")
         ~> (~isPaused \/ id \notin DOMAIN items \/ items[id].status # "processing")

\* Paused with a free slot and a pending item, after an item that was in
\* flight has completed.
PausedWithWorkWaiting ==
  /\ isPaused /\ FreeSlot
  /\ CountStatus(queue, items, "pending") > 0
  /\ CountStatus(queue, items, "completed") > 0
  /\ sleepers + pollers = 0

\* A compressImage call whose item stop() took out of the queue settles.
DiscardedSettles(id) ==
  /\ id \in DOMAIN items /\ ~InQueue(id) /\ items[id].status = "processing"
  /\ id \notin DOMAIN items'

\* C6: stop() leaves the queue and the processing set empty and the
\* coordinator idle, and the settling of an operation that stop() discarded
\* changes neither the queue nor the flags nor the progress statistics.
StopDiscardsInFlight ==
  /\ [][stop => queue' = <<>> /\ processing' = {} /\ ~isRunning' /\ ~isPaused']_vars
  /\ [][(\E id \in DOMAIN items : DiscardedSettles(id)) =>
          /\ queue' = queue
          /\ isRunning' = isRunning /\ isPaused' = isPaused
          /\ processingTimes' = processingTimes
          /\ progress' = progress]_vars

\* C7: addToQueue with at least one file on an idle coordinator leaves it
\* running with min(maxConcurrency, pending items) items in processing; items
\* added to a paused coordinator are pending until resume() is called.
AddedNow == Len(queue') > Len(queue)

AutoStarts ==
  AddedNow /\ ~isRunning /\ ~isPaused =>
    /\ isRunning'
    /\ Cardinality({id \in DOMAIN items' : Dispatched(id)}) =
         Min(config.maxConcurrency,
             CountStatus(queue, items, "pending") + Len(queue') - Len(queue))
    /\ CountStatus(queue', items', "processing") =
         Cardinality({id \in DOMAIN items' : Dispatched(id)})

HeldUntilResume == \A id \in DOMAIN items : items[id].held => items[id].status = "pending"

AddStartsOrWaits == []HeldUntilResume /\ [][AutoStarts]_vars

\* An item started by addToQueue is in flight, the coordinator was paused, and
\* an item added since waits although a slot is free.
AddedWhilePaused ==
  /\ isPaused /\ FreeSlot
  /\ \E id \in DOMAIN items : InQueue(id) /\ items[id].held
  /\ \E id \in DOMAIN items : InQueue(id) /\ items[id].status = "processing"

\* The compressImage call of a queue item is rejected and the item is failed.
FailedNow(id) == FailStep(id) /\ items'[id].status = "failed"

PauseFlagOnFailure ==
  \A id \in DOMAIN items :
    FailedNow(id) =>
      IF config.pauseOnError THEN isPaused' ELSE isPaused' = isPaused

\* C8 as stated: a failed item pauses the coordinator exactly when
\* pauseOnError is set, and from then until resume() is called nothing is
\* dispatched.
PausedOnErrorUntilResume ==
  [][/\ PauseFlagOnFailure
     /\ errorWindow /\ errorWindow' => NoDispatch]_vars

\* C8 as amended: a failed item pauses the coordinator exactly when
\* pauseOnError is set, and from then until resume() or stop() is called
\* nothing is dispatched.
PausedOnErrorUntilResumeOrStop ==
  [][/\ PauseFlagOnFailure
     /\ errorWindow /\ isPaused /\ isPaused' => NoDispatch]_vars

\* Paused by a failure, with a pending item and a free slot.
PausedByFailure ==
  /\ config.pauseOnError /\ isPaused /\ errorWindow /\ FreeSlot
  /\ CountStatus(queue, items, "failed") > 0
  /\ CountStatus(queue, items, "pending") > 0

\* C9: a failure is recorded on its item and frees the item's slot; with
\* pauseOnError off it leaves the flags and the dispatch loops as they are, and
\* a pending item with a free slot is then dispatched (or the slot is taken).
ErrorRecorded == \A id \in DOMAIN items : items[id].status = "failed" => items[id].error \in ErrorMessages

FailureContained ==
  \A id \in DOMAIN items :
    FailStep(id) =>
      /\ items'[id].error \in ErrorMessages
      /\ id \notin processing'
      /\ ~config.pauseOnError =>
           /\ isRunning' = isRunning /\ isPaused' = isPaused
           /\ sleepers' = sleepers /\ pollers' = pollers /\ hung' = hung

FailureDoesNotStopDispatch ==
  /\ []ErrorRecorded
  /\ [][FailureContained]_vars
  /\ \A id \in 1..MaxItems :
       (~config.pauseOnError /\ InQueue(id) /\ items[id].status = "pending"
          /\ FreeSlot /\ ~isPaused)
         ~> (~InQueue(id) \/ items[id].status # "pending" \/ ~FreeSlot \/ isPaused)

\* An item is failed with its message while another item, dispatched after
\* the failure, is processing and the coordinator is not paused.
FailedWhileOthersRun ==
  /\ ~config.pauseOnError /\ isRunning /\ ~isPaused
  /\ \E id \in DOMAIN items, other \in DOMAIN items :
       /\ InQueue(id) /\ items[id].status = "failed"
       /\ InQueue(other) /\ items[other].status = "processing" /\ other > id
       /\ config.maxConcurrency = 1

\* The part of the queue that the addToQueue call of this step appended.
Appended == SubSeq(queue', Len(queue) + 1, Len(queue'))

\* Item a may stand in front of item b: higher priority, or the same priority
\* and smaller, or equal in both and earlier in the files handed in.
MayPrecede(a, b) ==
  LET x == items'[a]
      y == items'[b]
  IN \/ priorityOrder(x.priority) > priorityOrder(y.priority)
     \/ /\ x.priority = y.priority
        /\ \/ x.size < y.size
           \/ x.size = y.size /\ a < b

AppendedInOrder ==
  AddedNow =>
    /\ Range(Appended) = nextId..(nextId' - 1)
    /\ Len(Appended) = nextId' - nextId
    /\ \A i, j \in 1..Len(Appended) :
         i < j => IF config.prioritizeSmallFiles
                  THEN MayPrecede(Appended[i], Appended[j])
                  ELSE Appended[i] < Appended[j]

QueuedItemsKept ==
  AddedNow =>
    /\ SubSeq(queue', 1, Len(queue)) = queue
    /\ \A id \in Range(queue) :
         id \in DOMAIN items' /\ items'[id].status = items[id].status

\* C11: the items of one addToQueue call are appended by priority descending,
\* then originalSize ascending, then input order when prioritizeSmallFiles is
\* set, and in input order when it is not; the items that were in the queue
\* keep their positions and their statuses.
SortedAppend == [][AppendedInOrder /\ QueuedItemsKept]_vars

\* A smaller file handed in behind a larger one stands in front of it, behind
\* an item that was added before and has completed.
SmallFileFirst ==
  /\ config.prioritizeSmallFiles
  /\ queue = <<1, 3, 2>>
  /\ items[1].status = "completed"
  /\ items[3].size < items[2].size
  /\ items[3].priority = items[2].priority

Planned == call.op = "calculateOptimalDimensions" /\ call.stage = "returned"

\* C12: for every source width and height and every mode, the planned width
\* is not greater than the source width and the planned height is not greater
\* than the source height.
NeverUpscales ==
  Planned =>
    /\ call.result.width <= call.originalWidth
    /\ call.result.height <= call.originalHeight

\* C13: for every source width and height and every mode, both planned
\* dimensions are even integers.
EvenDimensions ==
  Planned =>
    /\ call.result.width \in Nat /\ call.result.width % 2 = 0
    /\ call.result.height \in Nat /\ call.result.height % 2 = 0

\* An odd source, larger than the cap, has been planned.
OddSourcePlanned ==
  /\ Planned
  /\ call.originalWidth % 2 = 1 /\ call.originalHeight % 2 = 1
  /\ call.originalWidth > getMaxSize(call.settings.mode)
  /\ call.result.width = getMaxSize(call.settings.mode)
  /\ call.result.height > 0

\* C14: if the larger side of the source exceeds the cap of the mode (1200
\* aggressive, 1920 balanced, 2560 gentle), the larger planned dimension is
\* the cap; and no planned dimension exceeds the cap.
CappedAt(mode) ==
  IF mode = "aggressive" THEN 1200 ELSE IF mode = "balanced" THEN 1920 ELSE 2560

LargerSideIsCap ==
  Planned =>
    LET cap == CappedAt(call.settings.mode)
    IN /\ Max(call.originalWidth, call.originalHeight) > cap =>
            Max(call.result.width, call.result.height) = cap
       /\ call.result.width <= cap /\ call.result.height <= cap

\* A tall source above the cap of gentle mode has been planned.
TallSourceCapped ==
  /\ Planned
  /\ call.settings.mode = "gentle"
  /\ call.originalHeight > 2 * call.originalWidth
  /\ call.originalHeight > CappedAt("gentle")
  /\ call.result.height = CappedAt("gentle")
  /\ call.result.width > 0 /\ call.result.width < call.originalWidth

Derived == call.op = "calculateAdvancedQuality" /\ call.stage = "returned"

\* C15: for every quality in 10..95, every mode and every pair of original
\* and output dimensions, the derived quality lies in [0.05, 0.98]
\* (5,000,000 and 98,000,000 in units of 10^-8).
QualityWithinRange ==
  Derived => call.result >= 5000000 /\ call.result <= 98000000

\* A quality has been derived whose product of factors exceeds 0.98.
QualityClampedAtTop ==
  /\ Derived
  /\ unclampedQuality(call.settings, call.originalDimensions,
                      call.compressedDimensions) > 98000000
  /\ call.result = 98000000

\* The factors as percentages.
ModeFactor(mode) ==
  IF mode = "aggressive" THEN 75 ELSE IF mode = "gentle" THEN 115 ELSE 90

ResizeFactor(originalDimensions, outputDimensions) ==
  LET outputArea == outputDimensions.width * outputDimensions.height
      originalArea == originalDimensions.width * originalDimensions.height
  IN IF 2 * outputArea < originalArea THEN 95
     ELSE IF 10 * outputArea > 9 * originalArea THEN 105
     ELSE 100

SizeFactor(outputDimensions) ==
  LET pixels == outputDimensions.width * outputDimensions.height
  IN IF pixels > 2000000 THEN 95 ELSE IF pixels < 500000 THEN 105 ELSE 100

ProductOfFactors(settings, originalDimensions, outputDimensions) ==
  LET afterMode == settings.quality * ModeFactor(settings.mode)
      capped == IF settings.mode = "gentle" /\ afterMode > 9800 THEN 9800 ELSE afterMode
  IN capped * ResizeFactor(originalDimensions, outputDimensions)
            * SizeFactor(outputDimensions)

ClampedProduct ==
  Derived =>
    LET product == ProductOfFactors(call.settings, call.originalDimensions,
                                    call.compressedDimensions)
    IN call.result = (IF product < 5000000 THEN 5000000
                      ELSE IF product > 98000000 THEN 98000000 ELSE product)

FullHdBalanced ==
  LET settings == [quality |-> 80, mode |-> "balanced"]
      source == [width |-> 1920, height |-> 1080]
  IN /\ \A below \in BOOLEAN :
          calculateOptimalDimensions(1920, 1080, settings, below) = source
     /\ Derived /\ call.settings = settings /\ call.originalDimensions = source
          /\ call.compressedDimensions = source
        => call.result = 71820000

\* C16: the derived quality is the clamp to [0.05, 0.98] of quality/100 x
\* mode factor (0.75 aggressive, 1.15 gentle with the product capped at 0.98,
\* 0.9 otherwise) x resize factor (0.95 below an area ratio of 0.5, 1.05
\* above 0.9, else 1) x size factor (0.95 above 2,000,000 output pixels, 1.05
\* below 500,000, else 1); a 1920x1080 source with mode balanced and quality
\* 80 is planned as 1920x1080 and its derived quality is 0.7182.
QualityIsClampedProduct == ClampedProduct /\ FullHdBalanced

\* The quality of the 1920x1080 source at quality 80, balanced, has been
\* derived.
FullHdDerived ==
  /\ Derived
  /\ call.settings = [quality |-> 80, mode |-> "balanced"]
  /\ call.originalDimensions = [width |-> 1920, height |-> 1080]
  /\ call.compressedDimensions = call.originalDimensions
  /\ call.result = 71820000

\* C17: the sharpening stage runs exactly when sharpenFilter is set or the
\* mode is gentle or the quality exceeds 80, and the noise reduction runs
\* exactly when noiseReduction is set or the mode is aggressive.
StagesFollowResolvedFlags ==
  call.op = "compressImage" =>
    /\ call.stage \in {"drawn", "filtered"} =>
         call.sharpened = (\/ call.settings.sharpenFilter
                           \/ call.settings.mode = "gentle"
                           \/ call.settings.quality > 80)
    /\ call.stage = "filtered" =>
         call.denoised = (\/ call.settings.noiseReduction
                          \/ call.settings.mode = "aggressive")

Filtered == call.op = "filter" /\ call.stage = "returned"

\* The pixels a filter has to leave alone: the outermost ones for the
\* sharpening, those within two pixels of an edge for the noise reduction.
InMargin(filter, x, y, width, height) ==
  IF filter = "applyUnsharpMask"
  THEN x = 0 \/ x = width - 1 \/ y = 0 \/ y = height - 1
  ELSE x < 2 \/ x > width - 3 \/ y < 2 \/ y > height - 3

MarginPixels ==
  {i \in 1..(call.imageData.width * call.imageData.height) :
     InMargin(call.filter, (i - 1) % call.imageData.width,
              (i - 1) \div call.imageData.width,
              call.imageData.width, call.imageData.height)}

Analyzed == call.op = "analyzeImageQuality" /\ call.stage = "returned"

SameSize(raster1, raster2) ==
  raster1.width = raster2.width /\ raster1.height = raster2.height

SameColours(raster1, raster2) ==
  \A i \in 1..Pixels(raster1) :
    /\ raster1.data[i].r = raster2.data[i].r
    /\ raster1.data[i].g = raster2.data[i].g
    /\ raster1.data[i].b = raster2.data[i].b

IsSentinel(psnr) == ~psnr.nan /\ psnr.v = 100 * 10000

\* C19: for a raster compared with itself the MSE is 0 and the PSNR is the
\* sentinel 100; and for two rasters of equal dimensions the PSNR is 100 only
\* if they agree on every R, G and B sample.
SentinelOnlyForEqual ==
  Analyzed =>
    /\ call.originalData = call.compressedData =>
         /\ ~call.report.mse.nan /\ call.report.mse.sum = 0
         /\ IsSentinel(call.report.psnr)
    /\ SameSize(call.originalData, call.compressedData)
          /\ IsSentinel(call.report.psnr)
         => SameColours(call.originalData, call.compressedData)

\* A raster with a spot has been compared with itself, and one with a
\* raster that differs from it in one pixel.
ComparedWithItself ==
  /\ Analyzed
  /\ call.originalData = call.compressedData
  /\ call.originalData.width = 2
  /\ call.originalData.data[1] # call.originalData.data[2]
  /\ IsSentinel(call.report.psnr)

\* C20: the overallQuality of every report is an integer from 0 to 100.
OverallQualityInRange ==
  Analyzed =>
    /\ ~call.report.overallQuality.nan
    /\ call.report.overallQuality.v \in 0..100

IsSolidGray(raster) ==
  \A i \in 1..Pixels(raster) :
    /\ raster.data[i] = raster.data[1]
    /\ raster.data[i].r = raster.data[i].g /\ raster.data[i].g = raster.data[i].b

\* C21 as stated: when the original and the compressed raster are the same
\* solid-gray image, the overallQuality of the report is at least 90
\* (Excellent).
SolidGrayIsExcellent ==
  Analyzed /\ call.originalData = call.compressedData
           /\ IsSolidGray(call.originalData)
    => ~call.report.overallQuality.nan /\ call.report.overallQuality.v >= 90

\* C22: for two rasters whose widths or heights differ the metrics are not
\* returned: the call ends in a DimensionMismatch error, never in a report.
MismatchIsReported ==
  call.op = "analyzeImageQuality"
    /\ ~SameSize(call.originalData, call.compressedData)
    => call.stage # "returned"

Encoded == call.op = "compressImage" /\ call.stage \in {"resolved", "rejected"}

\* C23: when the encoder hands over nothing or a blob of 0 bytes, compressImage
\* rejects; every result it resolves with has a size above 0 and a finite
\* compression ratio of file size over blob size.
EmptyOutputIsRejected ==
  Encoded =>
    /\ call.blob.null \/ call.blob.size = 0 => call.stage = "rejected"
    /\ call.stage = "resolved" =>
         /\ call.result.size > 0
         /\ call.result.compressionRatio.finite
         /\ call.result.compressionRatio.num = call.fileSize
         /\ call.result.compressionRatio.den = call.result.size

Recorded == call.op = "handleCompressFile" /\ call.stage = "compressed"

\* C25: every comparison that handleCompressFile makes after a compression
\* is between two rasters of equal width and height, also when the planned
\* dimensions differ from those of the source.
AssessedRastersMatch ==
  Recorded /\ call.assessed => SameSize(call.originalData, call.compressedData)

\* The grade of a score under the thresholds 90, 80, 70 and 60.
GradeUnderThresholds(score) ==
  CHOOSE grade \in {"Excellent", "Very Good", "Good", "Fair", "Poor"} :
    /\ grade = "Excellent" <=> AtLeast(score, 90)
    /\ grade = "Very Good" <=> AtLeast(score, 80) /\ ~AtLeast(score, 90)
    /\ grade = "Good" <=> AtLeast(score, 70) /\ ~AtLeast(score, 80)
    /\ grade = "Fair" <=> AtLeast(score, 60) /\ ~AtLeast(score, 70)

\* C29: a file recorded as compressed carries the grade of its recorded
\* score (90 Excellent, 80 Very Good, 70 Good, 60 Fair, otherwise Poor), also
\* when the assessment threw and the score is 0; and getQualityGrade gives the
\* same label for that score.
RecordedGradeMatchesScore ==
  Recorded =>
    /\ call.qualityGrade = GradeUnderThresholds(call.qualityScore)
    /\ getQualityGrade(call.qualityScore) = call.qualityGrade

\* C24: while the number of processing items is at or above maxConcurrency
\* (as after updateConfig has lowered it), no item goes from pending to
\* processing.
NoDispatchAtOrAboveCap ==
  [][CountStatus(queue, items, "processing") >= config.maxConcurrency
       /\ config' = config
     => NoDispatch]_vars

\* C26: when an item goes from pending to processing, no item of strictly
\* higher priority is left pending in the queue.
DispatchRespectsPriority ==
  [][\A id \in DOMAIN items' :
       Dispatched(id) =>
         \A other \in Range(queue') :
           items'[other].status = "pending" =>
             priorityOrder(items'[other].priority) <= priorityOrder(items'[id].priority)]_vars

\* C27: in every progress report the five buckets add up to the total,
\* running or paused, so that pending + paused counts no item that is
\* counted as processing.
BucketsSumToTotal ==
  progress.completed + progress.failed + progress.processing
    + progress.pending + progress.paused = progress.total

\* The dispatch loops that have been started and have not returned.
ActiveLoops == sleepers + pollers + (IF hung THEN 1 ELSE 0)

\* C28: at most one dispatch loop is active at any time.
SingleDispatchLoop == ActiveLoops <= 1

AllFinished == queue # <<>> /\ \A id \in Range(queue) : Finished(id)

\* C30: once every item of the queue is completed or failed and no dispatch
\* loop is left waiting on a timer, the loop has returned: the coordinator is
\* idle (isRunning is false) with the queue as it is, and can be started again.
IdleWhenAllFinished ==
  AllFinished /\ sleepers + pollers = 0 => ~isRunning /\ ~hung

\* C21 as amended: when the original and the compressed raster are the same
\* solid-gray image, PSNR is the sentinel 100, SSIM is 1, sharpness, contrast
\* and colourfulness are 0, and the overallQuality is from 55 to 60.
SolidGrayScoresAtMost60 ==
  Analyzed /\ call.originalData = call.compressedData
           /\ IsSolidGray(call.originalData)
    => /\ IsSentinel(call.report.psnr)
       /\ call.report.ssim = Num(10000)
       /\ call.report.sharpness = Num(0)
       /\ call.report.contrast = Num(0)
       /\ call.report.colorfulness = Num(0)
       /\ ~call.report.overallQuality.nan
       /\ call.report.overallQuality.v \in 55..60

\* A mid-gray raster of the largest side has been compared with itself, the
\* compressed file being a fiftieth of the original.
SolidGrayAssessed ==
  /\ Analyzed /\ call.originalData = call.compressedData
  /\ IsSolidGray(call.originalData)
  /\ call.originalData.width = MaxGraySide
  /\ call.originalData.data[1].r = 128
  /\ call.originalSize = 50 /\ call.compressedSize = 1
  /\ call.report.overallQuality = Num(60)

====
